---- MODULE Spec2Model ----
(***************************************************************************)
(* A model of the Dubins path library (src/dubins/src/dubins.c).           *)
(*                                                                         *)
(* Numbers.  The program computes with C doubles.  The model computes with *)
(* exact fixed-point reals: every quantity is an integer count of 1/U,     *)
(* where U is a multiple of every turning radius of the model, so that the *)
(* quotients t/rho and the products length*rho of the program are exact.   *)
(* Products and quotients that leave the grid, and the libm functions      *)
(* (sqrt, sin, cos, atan2, acos, floor), are rounded to the grid.  The     *)
(* trigonometric functions are the piecewise-linear ("diamond") ones: they *)
(* have the period, the zeros, the extrema and the monotonicity of the     *)
(* libm functions and are consistent with each other.                      *)
(*                                                                         *)
(* Two effects of the double format are modelled, at the two places where  *)
(* a constant of the program lets them decide a return code:               *)
(*  - a word solver may return a parameter that is not finite (the         *)
(*    distance of the poses overflows); its cost is then not below the     *)
(*    sentinel INFINITY of dubins_init_normalised;                         *)
(*  - dubins_path_endpoint subtracts EPSILON = 1e-9 from the length, and a *)
(*    double above 2^24 absorbs it (Sub).                                  *)
(* Every other rounding of doubles is outside the model; in particular     *)
(* x += stepSize in dubins_path_sample_many is taken to be exact, as it is *)
(* for fewer than 2^53 steps.                                              *)
(***************************************************************************)
EXTENDS Integers, Sequences, FiniteSets

VARIABLES path,     \* the DubinsPath object the calls write and read
          inited,   \* path holds the result of a successful call
          old,      \* the source path of the last dubins_extract_subpath
          args,     \* the poses and the radius dubins_init is called with
          words,    \* what the six word solvers return for these arguments
          call,     \* the last call: its name and arguments
          ret,      \* the return code of the last call
          q,        \* the output pose of the last dubins_path_sample / endpoint
          pc,       \* position of dubins_path_sample_many: "idle" or "loop"
          x,        \* dubins_path_sample_many: the loop variable x
          visits    \* dubins_path_sample_many: the visitor calls made so far

vars == <<path, inited, old, args, words, call, ret, q, pc, x, visits>>

---------------------------------------------------------------------------
(* Bounds of the model *)

MaxRho == 2        \* turning radii are -1 .. MaxRho
MaxCoord == 1      \* pose coordinates are 0 .. MaxCoord
MaxHeading == 3    \* headings are -1 .. MaxHeading quarter turns
MaxT == 4          \* sample and sub-path arguments are -1 .. MaxT
MaxStep == 2       \* step sizes are 0 .. MaxStep
MaxCode == 2       \* visitor return codes are 0 .. MaxCode
MaxVisits == 6     \* visitor calls recorded per dubins_path_sample_many
MaxCost == 1       \* arbitrary solver outcomes: parameters of sum <= MaxCost
MaxExact == 30     \* a - b is exact up to a = MaxExact * b

---------------------------------------------------------------------------
(* Fixed-point arithmetic *)

RECURSIVE Gcd(_, _)
Gcd(a, b) == IF b = 0 THEN a ELSE Gcd(b, a % b)

RECURSIVE LcmUpTo(_)
LcmUpTo(n) == IF n <= 1 THEN 1 ELSE LET l == LcmUpTo(n - 1) IN (l * n) \div Gcd(l, n)

\* The grid: the real number v is the integer v * U.
U == LcmUpTo(MaxRho)

Mul(a, b) == (a * b) \div U
Div(a, b) == (a * U) \div b
fabs(a) == IF a < 0 THEN -a ELSE a
floor(a) == (a \div U) * U
fmin(a, b) == IF a < b THEN a ELSE b
sqrt(a) == CHOOSE r \in 0..(a * U) : r * r <= a * U /\ a * U < (r + 1) * (r + 1)

\* a - b in doubles, for 0 < b: the nearest double to a - b is a itself once
\* b is below half the spacing of the doubles at a.  For b = 1e-9 that is
\* every a above 2^24; the model scales the ratio 2^24 / 1e-9 to MaxExact.
Sub(a, b) == IF a > MaxExact * b THEN a ELSE a - b

EDUBOK == 0
EDUBPARAM == 2
EDUBBADRHO == 3
EDUBNOPATH == 4

\* EPSILON is 10e-10 in the program; the grid's smallest positive number here.
EPSILON == 1

LSL == 0
LSR == 1
RSL == 2
RSR == 3
RLR == 4
LRL == 5

L_SEG == 0
S_SEG == 1
R_SEG == 2

M_PI == (355 * U) \div 113

DIRDATA == << <<L_SEG, S_SEG, L_SEG>>,
              <<L_SEG, S_SEG, R_SEG>>,
              <<R_SEG, S_SEG, L_SEG>>,
              <<R_SEG, S_SEG, R_SEG>>,
              <<R_SEG, L_SEG, R_SEG>>,
              <<L_SEG, R_SEG, L_SEG>> >>

fmodr(a, b) == a - Mul(b, floor(Div(a, b)))

mod2pi(theta) == fmodr(theta, 2 * M_PI)

\* libm, on the grid: the piecewise-linear sine and cosine of period 2*M_PI
sin(a) ==
    LET r == mod2pi(a) IN
    IF 2 * r <= M_PI THEN (2 * U * r) \div M_PI
    ELSE IF 2 * r <= 3 * M_PI THEN (2 * U * (M_PI - r)) \div M_PI
    ELSE (2 * U * (r - 2 * M_PI)) \div M_PI

cos(a) ==
    LET r == mod2pi(a) IN
    IF r <= M_PI THEN (U * (M_PI - 2 * r)) \div M_PI
    ELSE (U * (2 * r - 3 * M_PI)) \div M_PI

\* libm, on the grid: the angle in [-M_PI, M_PI] of the point (b, a)
atan2(a, b) ==
    LET s == fabs(a) + fabs(b) IN
    IF s = 0 THEN 0
    ELSE IF b >= 0 THEN (M_PI * a) \div (2 * s)
    ELSE IF a >= 0 THEN M_PI - ((M_PI * a) \div (2 * s))
    ELSE -M_PI - ((M_PI * a) \div (2 * s))

\* libm, on the grid: the inverse of cos on [0, M_PI], for -1 <= a <= 1
acos(a) == (M_PI * (U - a)) \div (2 * U)

---------------------------------------------------------------------------
(* The six word solvers *)

NoPath == [err |-> EDUBNOPATH, params |-> <<0, 0, 0>>]
Ok(t, p, qq) == [err |-> EDUBOK, params |-> <<t, p, qq>>]

dubins_LSL(alpha, beta, d) ==
    LET sa == sin(alpha)
        sb == sin(beta)
        ca == cos(alpha)
        cb == cos(beta)
        c_ab == cos(alpha - beta)
        tmp0 == d + sa - sb
        p_squared == 2 * U + Mul(d, d) - 2 * c_ab + Mul(2 * d, sa - sb)
        tmp1 == atan2(cb - ca, tmp0)
    IN IF p_squared < 0 THEN NoPath
       ELSE Ok(mod2pi(-alpha + tmp1), sqrt(p_squared), mod2pi(beta - tmp1))

dubins_RSR(alpha, beta, d) ==
    LET sa == sin(alpha)
        sb == sin(beta)
        ca == cos(alpha)
        cb == cos(beta)
        c_ab == cos(alpha - beta)
        tmp0 == d - sa + sb
        p_squared == 2 * U + Mul(d, d) - 2 * c_ab + Mul(2 * d, sb - sa)
        tmp1 == atan2(ca - cb, tmp0)
    IN IF p_squared < 0 THEN NoPath
       ELSE Ok(mod2pi(alpha - tmp1), sqrt(p_squared), mod2pi(-beta + tmp1))

dubins_LSR(alpha, beta, d) ==
    LET sa == sin(alpha)
        sb == sin(beta)
        ca == cos(alpha)
        cb == cos(beta)
        c_ab == cos(alpha - beta)
        p_squared == -2 * U + Mul(d, d) + 2 * c_ab + Mul(2 * d, sa + sb)
        p == sqrt(p_squared)
        tmp2 == atan2(-ca - cb, d + sa + sb) - atan2(-2 * U, p)
    IN IF p_squared < 0 THEN NoPath
       ELSE Ok(mod2pi(-alpha + tmp2), p, mod2pi(-mod2pi(beta) + tmp2))

dubins_RSL(alpha, beta, d) ==
    LET sa == sin(alpha)
        sb == sin(beta)
        ca == cos(alpha)
        cb == cos(beta)
        c_ab == cos(alpha - beta)
        p_squared == Mul(d, d) - 2 * U + 2 * c_ab - Mul(2 * d, sa + sb)
        p == sqrt(p_squared)
        tmp2 == atan2(ca + cb, d - sa - sb) - atan2(2 * U, p)
    IN IF p_squared < 0 THEN NoPath
       ELSE Ok(mod2pi(alpha - tmp2), p, mod2pi(beta - tmp2))

dubins_RLR(alpha, beta, d) ==
    LET sa == sin(alpha)
        sb == sin(beta)
        ca == cos(alpha)
        cb == cos(beta)
        c_ab == cos(alpha - beta)
        tmp_rlr == (6 * U - Mul(d, d) + 2 * c_ab + Mul(2 * d, sa - sb)) \div 8
        p == mod2pi(2 * M_PI - acos(tmp_rlr))
        t == mod2pi(alpha - atan2(ca - cb, d - sa + sb) + mod2pi(p \div 2))
    IN IF fabs(tmp_rlr) > U THEN NoPath
       ELSE Ok(t, p, mod2pi(alpha - beta - t + mod2pi(p)))

dubins_LRL(alpha, beta, d) ==
    LET sa == sin(alpha)
        sb == sin(beta)
        ca == cos(alpha)
        cb == cos(beta)
        c_ab == cos(alpha - beta)
        tmp_lrl == (6 * U - Mul(d, d) + 2 * c_ab + Mul(2 * d, -sa + sb)) \div 8
        p == mod2pi(2 * M_PI - acos(tmp_lrl))
        t == mod2pi(-alpha - atan2(ca - cb, d + sa - sb) + (p \div 2))
    IN IF fabs(tmp_lrl) > U THEN NoPath
       ELSE Ok(t, p, mod2pi(mod2pi(beta) - alpha - t + mod2pi(p)))

\* the solver table, in the order of evaluation
dubins_words(alpha, beta, d) ==
    << dubins_LSL(alpha, beta, d),
       dubins_LSR(alpha, beta, d),
       dubins_RSL(alpha, beta, d),
       dubins_RSR(alpha, beta, d),
       dubins_RLR(alpha, beta, d),
       dubins_LRL(alpha, beta, d) >>

---------------------------------------------------------------------------
(* The path synthesizer *)

\* HUGE_VAL: above every number of the grid; a parameter that overflowed
INFINITY == 2147483647

\* line 114: a sum with an infinite term is infinite
Cost(r) ==
    IF r.params[1] = INFINITY \/ r.params[2] = INFINITY \/ r.params[3] = INFINITY
    THEN INFINITY
    ELSE r.params[1] + r.params[2] + r.params[3]

\* line 113: the word is taken into account when its solver succeeded
Feasible(r) == r.err = EDUBOK

\* a later word of equal cost replaces the best word
BetterOrEqual(cost, best_cost) == cost <= best_cost

\* line 115: the comparison that replaces the best word so far
Better(cost, best_cost) == cost < best_cost

\* One iteration of the loop over the six words: i is the word, st the locals
\* best_cost and best_word with the fields of *path written so far.
WordStep(res, i, st) ==
    LET r == res[i + 1]
        cost == Cost(r)
    IN IF Feasible(r) /\ Better(cost, st.best_cost)
       THEN [best_word |-> i, best_cost |-> cost, param |-> r.params, type |-> i]
       ELSE st

RECURSIVE WordLoop(_, _, _)
WordLoop(res, i, st) ==
    IF i < 6 THEN WordLoop(res, i + 1, WordStep(res, i, st)) ELSE st

\* line 126: no word was selected
NoneSelected(st) == st.best_word = -1

\* res is what the six solvers return for (alpha, beta, d)
dubins_init_normalised(res, p) ==
    LET st == WordLoop(res, 0, [best_word |-> -1, best_cost |-> INFINITY,
                                param |-> p.param, type |-> p.type])
        written == [p EXCEPT !.param = st.param, !.type = st.type]
    IN IF NoneSelected(st)
       THEN [ret |-> EDUBNOPATH, path |-> written]
       ELSE [ret |-> EDUBOK, path |-> [written EXCEPT !.type = st.best_word]]

\* a radius of zero is let through
NegativeRho(rho) == rho < 0

\* line 142: the radius is rejected
BadRho(rho) == rho <= 0

\* the normalised problem (alpha, beta, d) of two poses; rho is not 0
Normalised(q0, q1, rho) ==
    LET dx == q1[1] - q0[1]
        dy == q1[2] - q0[2]
        D == sqrt(Mul(dx, dx) + Mul(dy, dy))
        theta == mod2pi(atan2(dy, dx))
    IN [alpha |-> mod2pi(q0[3] - theta),
        beta |-> mod2pi(q1[3] - theta),
        d |-> Div(D, rho)]

\* dubins_init, with res the results of the solver table.  The quotient
\* d = D / rho is computed before the radius is tested and is not used when
\* the radius is rejected (a division of doubles does not trap).
dubins_init(q0, q1, rho, p, res) ==
    IF BadRho(rho)
    THEN [ret |-> EDUBBADRHO, path |-> p]
    ELSE dubins_init_normalised(res, [p EXCEPT !.qi = q0, !.rho = rho])

---------------------------------------------------------------------------
(* The sampler and the subdivider *)

dubins_path_length(p) ==
    Mul(p.param[1] + p.param[2] + p.param[3], p.rho)

dubins_segment(t, qi, type) ==
    IF type = L_SEG
    THEN << qi[1] + sin(qi[3] + t) - sin(qi[3]),
            qi[2] - cos(qi[3] + t) + cos(qi[3]),
            qi[3] + t >>
    ELSE IF type = R_SEG
    THEN << qi[1] - sin(qi[3] - t) + sin(qi[3]),
            qi[2] + cos(qi[3] - t) - cos(qi[3]),
            qi[3] - t >>
    ELSE << qi[1] + Mul(cos(qi[3]), t),
            qi[2] + Mul(sin(qi[3]), t),
            qi[3] >>

\* the total length itself is taken for a parameter of the path
OutOfBoundsPastEnd(p, t) == t < 0 \/ t > dubins_path_length(p)

\* line 312: the parameter is out of bounds
OutOfBounds(p, t) == t < 0 \/ t >= dubins_path_length(p)

\* the result is scaled and not translated back to the starting point
ToWorldNotTranslated(p, qt) ==
    << Mul(qt[1], p.rho), Mul(qt[2], p.rho), mod2pi(qt[3]) >>

\* lines 352-354: scale, translate back to the starting point, normalise
ToWorld(p, qt) ==
    << Mul(qt[1], p.rho) + p.qi[1], Mul(qt[2], p.rho) + p.qi[2], mod2pi(qt[3]) >>

\* qout is the caller's q, left as it is when the parameter is out of bounds
dubins_path_sample(p, t, qout) ==
    LET tprime == Div(t, p.rho)
        qi == <<0, 0, p.qi[3]>>
        types == DIRDATA[p.type + 1]
        p1 == p.param[1]
        p2 == p.param[2]
        q1 == dubins_segment(p1, qi, types[1])
        q2 == dubins_segment(p2, q1, types[2])
        qt == IF tprime < p1 THEN dubins_segment(tprime, qi, types[1])
              ELSE IF tprime < p1 + p2 THEN dubins_segment(tprime - p1, q1, types[2])
              ELSE dubins_segment(tprime - p1 - p2, q2, types[3])
    IN IF OutOfBounds(p, t)
       THEN [ret |-> EDUBPARAM, q |-> qout]
       ELSE [ret |-> 0, q |-> ToWorld(p, qt)]

dubins_path_endpoint(p, qout) ==
    dubins_path_sample(p, Sub(dubins_path_length(p), EPSILON), qout)

\* the word is not copied to the new path
ExtractWithoutType(p, t) ==
    LET tprime == Div(t, p.rho)
        n0 == fmin(p.param[1], tprime)
        n1 == fmin(p.param[2], tprime - n0)
        n2 == fmin(p.param[3], tprime - n0 - n1)
    IN [qi |-> p.qi, rho |-> p.rho, type |-> LSL, param |-> <<n0, n1, n2>>]

\* the third parameter is clamped with the second not subtracted
ExtractThirdUnclamped(p, t) ==
    LET tprime == Div(t, p.rho)
        n0 == fmin(p.param[1], tprime)
        n1 == fmin(p.param[2], tprime - n0)
        n2 == fmin(p.param[3], tprime - n0)
    IN [qi |-> p.qi, rho |-> p.rho, type |-> p.type, param |-> <<n0, n1, n2>>]

dubins_extract_subpath(p, t) ==
    LET tprime == Div(t, p.rho)
        n0 == fmin(p.param[1], tprime)
        n1 == fmin(p.param[2], tprime - n0)
        n2 == fmin(p.param[3], tprime - n0 - n1)
    IN [qi |-> p.qi, rho |-> p.rho, type |-> p.type, param |-> <<n0, n1, n2>>]

\* the loop runs once more, at the total length
LoopCondInclusive(xx, length) == xx <= length

\* line 366: the condition of the sampling loop
LoopCond(xx, length) == xx < length

---------------------------------------------------------------------------
(* The inputs of the model *)

Radii == {r * U : r \in -1..MaxRho}
Poses == {<<i * U, j * U, (h * M_PI) \div 2>> :
             i \in 0..MaxCoord, j \in 0..MaxCoord, h \in -1..MaxHeading}
Times == {t * U : t \in -1..MaxT}
Steps == {s * U : s \in 0..MaxStep}
Codes == 0..MaxCode

\* a DubinsPath nothing has been written to, and such an output pose
Unwritten == [qi |-> <<0, 0, 0>>, rho |-> 0, type |-> -1, param |-> <<0, 0, 0>>]
NoPose == <<0, 0, 0>>
NoWords == <<NoPath, NoPath, NoPath, NoPath, NoPath, NoPath>>

\* what the solver table returns to dubins_init(q0, q1, rho, ...)
\* (with rho <= 0 the table is not called)
WordsFor(q0, q1, rho) ==
    IF rho <= 0 THEN NoWords
    ELSE LET n == Normalised(q0, q1, rho) IN dubins_words(n.alpha, n.beta, n.d)

\* A behaviour is the life of one DubinsPath object: the caller has two poses
\* and a radius, calls dubins_init on the object and then uses it.  A
\* successful dubins_init writes every field of the object, so nothing of the
\* path depends on what the object held before.
Start ==
    /\ path = Unwritten
    /\ inited = FALSE
    /\ old = Unwritten
    /\ call = [op |-> "none", t |-> 0]
    /\ ret = 0
    /\ q = NoPose
    /\ pc = "idle"
    /\ x = 0
    /\ visits = << >>

Init ==
    /\ Start
    /\ args \in [q0 : Poses, q1 : Poses, rho : Radii]
    /\ words = WordsFor(args.q0, args.q1, args.rho)

---------------------------------------------------------------------------
(* The calls *)

\* dubins_init(q0, q1, rho, &path)
Synthesize ==
    LET r == dubins_init(args.q0, args.q1, args.rho, path, words) IN
    /\ call.op = "none"
    /\ path' = r.path
    /\ ret' = r.ret
    /\ inited' = (r.ret = EDUBOK)
    /\ call' = [op |-> "init", t |-> 0]
    /\ UNCHANGED <<old, args, words, q, pc, x, visits>>

\* dubins_path_sample(&path, t, q)
SampleAt ==
    \E t \in Times :
        LET r == dubins_path_sample(path, t, NoPose) IN
        /\ pc = "idle" /\ inited
        /\ ret' = r.ret
        /\ q' = r.q
        /\ call' = [op |-> "sample", t |-> t]
        /\ old' = Unwritten /\ x' = 0 /\ visits' = << >>
        /\ UNCHANGED <<path, inited, args, words, pc>>

\* dubins_path_endpoint(&path, q)
Endpoint ==
    LET r == dubins_path_endpoint(path, NoPose) IN
    /\ pc = "idle" /\ inited
    /\ ret' = r.ret
    /\ q' = r.q
    /\ call' = [op |-> "endpoint", t |-> 0]
    /\ old' = Unwritten /\ x' = 0 /\ visits' = << >>
    /\ UNCHANGED <<path, inited, args, words, pc>>

\* dubins_extract_subpath(&path, t, &newpath); newpath is the path from then on
ExtractSubpath ==
    \E t \in Times :
        /\ pc = "idle" /\ inited
        /\ old' = path
        /\ path' = dubins_extract_subpath(path, t)
        /\ ret' = 0
        /\ call' = [op |-> "extract", t |-> t]
        /\ q' = NoPose /\ x' = 0 /\ visits' = << >>
        /\ UNCHANGED <<inited, args, words, pc>>

\* dubins_path_sample_many(&path, cb, stepSize, user_data): entry
SampleManyBegin ==
    \E stepSize \in Steps :
        /\ pc = "idle" /\ inited
        /\ pc' = "loop"
        /\ x' = 0
        /\ visits' = << >>
        /\ call' = [op |-> "sample_many", t |-> stepSize]
        /\ old' = Unwritten /\ q' = NoPose /\ ret' = 0
        /\ UNCHANGED <<path, inited, args, words>>

\* one iteration of the while loop: sample at x, call the visitor
SampleManyVisit ==
    \E retcode \in Codes :
        /\ pc = "loop"
        /\ LoopCond(x, dubins_path_length(path))
        /\ Len(visits) < MaxVisits
        /\ q' = dubins_path_sample(path, x, q).q
        /\ visits' = Append(visits, [x |-> x, retcode |-> retcode])
        /\ IF retcode # 0
           THEN ret' = retcode /\ pc' = "idle" /\ x' = x
           ELSE x' = x + call.t /\ UNCHANGED <<ret, pc>>
        /\ UNCHANGED <<path, inited, old, args, words, call>>

\* the loop condition fails: return 0
SampleManyReturn ==
    /\ pc = "loop"
    /\ ~LoopCond(x, dubins_path_length(path))
    /\ ret' = 0
    /\ pc' = "idle"
    /\ UNCHANGED <<path, inited, old, args, words, call, q, x, visits>>

Next ==
    \/ Synthesize
    \/ SampleAt
    \/ Endpoint
    \/ ExtractSubpath
    \/ SampleManyBegin
    \/ SampleManyVisit
    \/ SampleManyReturn

Spec == Init /\ [][Next]_vars

---------------------------------------------------------------------------
(* The synthesizer over arbitrary outcomes of the six word solvers *)

\* a solver signals "no path", or succeeds with one segment of length <= MaxCost
Shapes == {<<0, 0, 0>>, <<0, INFINITY, 0>>} \cup
          UNION {{<<c * U, 0, 0>>, <<0, c * U, 0>>, <<0, 0, c * U>>} : c \in 1..MaxCost}
Outcomes == {NoPath} \cup {Ok(s[1], s[2], s[3]) : s \in Shapes}

InitSelect ==
    /\ Start
    /\ args \in [q0 : {<<0, 0, 0>>}, q1 : {<<U, 0, 0>>}, rho : Radii]
    /\ words \in [1..6 -> Outcomes]

NextSelect == Synthesize

SpecSelect == InitSelect /\ [][NextSelect]_vars

---------------------------------------------------------------------------
(* The claims *)

Sum3(s) == s[1] + s[2] + s[3]
TotalLength(p) == (p.rho * Sum3(p.param)) \div U
NonNegative(p) == p.param[1] >= 0 /\ p.param[2] >= 0 /\ p.param[3] >= 0

\* a solver succeeded with a cost that is a number
FiniteCost(r) == Feasible(r) /\ Cost(r) < INFINITY

C2_BadRadiusRejected ==
    (call.op = "init" /\ args.rho <= 0) => ret = EDUBBADRHO

\* C2 witness: dubins_init was called with rho = 0 for two distinct poses.
C2_Witness ==
    call.op = "init" /\ args.rho = 0 /\ args.q0 # args.q1 /\ ret = EDUBBADRHO

\* C3: with rho > 0, dubins_init returns EDUBNOPATH exactly when all six
\* solvers signal no path, and EDUBOK whenever at least one succeeds.
\* Violated: a solver that succeeds with an infinite parameter is skipped.
C3_NoPathIffAllInfeasible ==
    (call.op = "init" /\ args.rho > 0) =>
        /\ (ret = EDUBNOPATH) <=> (\A i \in 1..6 : words[i].err = EDUBNOPATH)
        /\ (\E i \in 1..6 : words[i].err = EDUBOK) => ret = EDUBOK

\* C4: dubins_path_sample returns EDUBPARAM exactly when t < 0 or
\* t >= rho * (param0 + param1 + param2), and 0 with a pose otherwise.
C4_SampleRange ==
    call.op = "sample" =>
        /\ (ret = EDUBPARAM) <=> (call.t < 0 \/ call.t >= TotalLength(path))
        /\ (0 <= call.t /\ call.t < TotalLength(path)) => ret = 0

\* C4 witness: a path of positive length was sampled at its total length and
\* the call returned EDUBPARAM.
C4_Witness ==
    /\ call.op = "sample" /\ call.t = TotalLength(path) /\ call.t > 0
    /\ ret = EDUBPARAM

\* C5: for stepSize > 0 the visitor is called at x = 0, stepSize, 2*stepSize,
\* ... and only at x below the total length; a non-zero visitor code ends the
\* calls and is the return value; with only zero codes the call returns 0
\* after the last x below the total length.
C5_SampleMany ==
    (call.op = "sample_many" /\ call.t > 0) =>
        LET n == Len(visits) IN
        /\ \A k \in 1..n :
              /\ visits[k].x = (k - 1) * call.t
              /\ visits[k].x < TotalLength(path)
              /\ k < n => visits[k].retcode = 0
        /\ (pc = "loop") => \A k \in 1..n : visits[k].retcode = 0
        /\ (pc = "idle" /\ n > 0 /\ visits[n].retcode # 0) => ret = visits[n].retcode
        /\ (pc = "idle" /\ (n = 0 \/ visits[n].retcode = 0)) =>
              ret = 0 /\ n * call.t >= TotalLength(path)

\* C5 witness: the visitor returned 0 twice and then a non-zero code, which
\* dubins_path_sample_many returned.
C5_Witness ==
    /\ call.op = "sample_many" /\ call.t > 0 /\ pc = "idle"
    /\ Len(visits) = 3 /\ visits[3].retcode # 0 /\ ret = visits[3].retcode

\* the path a successful dubins_init returns for the arguments
SynthPath == dubins_init(args.q0, args.q1, args.rho, Unwritten, words).path

\* C6: every path obtained by successful dubins_init and
\* dubins_extract_subpath calls, the latter with any t, has its three
\* parameters >= 0 and rho > 0.
C6_ParamsNonNegative ==
    inited => (NonNegative(path) /\ path.rho > 0)

\* C7: for a path with parameters >= 0 and t at or above its total length,
\* dubins_extract_subpath returns a path equal to it in every field.
C7_ClampedEqualsOriginal ==
    (call.op = "extract" /\ NonNegative(old) /\ call.t >= TotalLength(old)) =>
        path = old

\* C7 witness: a sub-path was extracted, at t above the total length, from a
\* path of three segments of positive length whose word is not the first.
C7_Witness ==
    /\ call.op = "extract" /\ call.t > TotalLength(old)
    /\ old.param[1] > 0 /\ old.param[2] > 0 /\ old.param[3] > 0
    /\ old.type # LSL
    /\ path = old

\* C8 as stated: for every path a successful dubins_init returned,
\* dubins_path_sample at t = 0 succeeds and returns the position of pose0 and
\* its heading modulo 2*pi.
C8_SampleAtZeroIsStart ==
    (call.op = "sample" /\ call.t = 0 /\ path = SynthPath) =>
        /\ ret = 0
        /\ q[1] = args.q0[1] /\ q[2] = args.q0[2]
        /\ (q[3] - args.q0[3]) % (2 * M_PI) = 0

\* C8 amended: for every path of positive total length a successful
\* dubins_init returned, dubins_path_sample at t = 0 succeeds and returns the
\* position of pose0 and its heading modulo 2*pi.
C8_SampleAtZeroIsStartIfPositive ==
    (call.op = "sample" /\ call.t = 0 /\ path = SynthPath
         /\ TotalLength(path) > 0) =>
        /\ ret = 0
        /\ q[1] = args.q0[1] /\ q[2] = args.q0[2]
        /\ (q[3] - args.q0[3]) % (2 * M_PI) = 0

\* C8 witness: a synthesized path of positive length, starting away from the
\* origin with a negative heading, was sampled at 0 and returned its start.
C8_Witness ==
    /\ call.op = "sample" /\ call.t = 0 /\ path = SynthPath
    /\ TotalLength(path) > 0
    /\ args.q0[1] > 0 /\ args.q0[2] > 0 /\ args.q0[3] < 0
    /\ ret = 0 /\ q[1] = args.q0[1] /\ q[2] = args.q0[2] /\ q[3] # args.q0[3]

\* C9: for a path with parameters >= 0 and t >= 0, the sub-path has the total
\* length min(t, total length of the path), and dubins_path_sample returns on
\* it, at every s with 0 <= s < that minimum, the pose it returns on the path.
C9_SubpathIsPrefix ==
    (call.op = "extract" /\ NonNegative(old) /\ call.t >= 0) =>
        LET m == IF call.t < TotalLength(old) THEN call.t ELSE TotalLength(old) IN
        /\ TotalLength(path) = m
        /\ \A s \in 0..(MaxT * U) : s < m =>
              /\ dubins_path_sample(path, s, NoPose).ret = 0
              /\ dubins_path_sample(path, s, NoPose) = dubins_path_sample(old, s, NoPose)

\* C9 witness: a path of three segments of positive length was cut inside its
\* second segment.
C9_Witness ==
    /\ call.op = "extract" /\ call.t > 0 /\ call.t < TotalLength(old)
    /\ old.param[1] > 0 /\ old.param[3] > 0
    /\ path.param[1] = old.param[1]
    /\ path.param[2] > 0 /\ path.param[2] < old.param[2]
    /\ path.param[3] = 0

\* C10: dubins_path_endpoint returns EDUBPARAM exactly when the total length
\* is below EPSILON and succeeds otherwise; it fails on the zero-length path
\* that dubins_init returns for two equal poses.
\* Violated: on a long path the length absorbs EPSILON and the sample point
\* is the length itself, which is out of range.
C10_EndpointRange ==
    call.op = "endpoint" =>
        /\ (ret = EDUBPARAM) <=> (TotalLength(path) < EPSILON)
        /\ (TotalLength(path) >= EPSILON) => ret = 0

====
